---- MODULE Spec2Model ----
(***************************************************************************)
(* Chat session orchestration of mindFounders_back: the chat controller    *)
(* (src/src/controllers/chatController.js), the chat orchestrator          *)
(* (src/unnamed/part_001, runCouncil / runDecision / orchestrateChat),     *)
(* the completion and moderation client (src/unnamed/part_010), the SSE    *)
(* helpers (src/unnamed/part_013) and the message cursor                   *)
(* (src/src/utils/pagination.js).                                          *)
(*                                                                         *)
(* A sendMessage request is a process: every awaited persistence or        *)
(* upstream call is one step, and the synchronous code up to the next      *)
(* awaited call belongs to the step of the call before it. One client      *)
(* sends its requests one after the other (a sendMessage, or a request on  *)
(* a session id whose answer is recorded); createSession, closeSession and *)
(* deleteSession of other requests interleave with it at every step.       *)
(***************************************************************************)
EXTENDS Integers, Sequences, FiniteSets, TLC

(***************************************************************************)
(* Bounds                                                                  *)
(***************************************************************************)
MaxTurns == 1         \* requests of the client per behaviour, one after the other
MaxResp == 2          \* entries in a completion's messages / analyses array

SessionIds == {1}
Users == {"u1", "u2"}
Owners == {"u1"}      \* the users who create sessions
Modes == {"COUNCIL", "DECISION"}
\* keys of active Character rows ("outro" is the key of none)
CharacterKeys == {"moises", "salomao"}
\* characterKey of a completion's entries: in a session of moises alone,
\* salomao is a key that is no participant
RespKeys == CharacterKeys
\* the characters arrays of the createSession requests
KeyLists ==
  {<<"moises">>, <<"moises", "salomao">>, <<"moises", "moises">>,
   <<"moises", "outro">>}

SeqsUpTo(S, n) == UNION {[1..k -> S] : k \in 0..n}

(***************************************************************************)
(* State                                                                   *)
(***************************************************************************)
VARIABLES
  sessions,   \* ChatSession rows with their ChatParticipant rows, by id
  messages,   \* Message rows in creation order
  req,        \* the sendMessage request in flight: its position and locals
  turn,       \* number of requests the client has sent
  page,       \* a client reading a session's history page by page (getSession)
  cur,        \* a message cursor being created and parsed
  ctx,        \* the message history orchestrateChat loaded for a turn
  study,      \* startStudyParticipation calls in flight and the participation rows
  creating,   \* a createSession request: its inserts in flight and its rows
  op          \* the session request answered in the last step, and its answer

vars == <<sessions, messages, req, turn, page, cur, ctx, study, creating, op>>
aux == <<page, cur, ctx, study, creating>>

NoSession ==
  [state |-> "absent", userId |-> "none", mode |-> "none", title |-> "none",
   closed |-> FALSE, participants |-> <<>>, updatedAt |-> 0]

NoCompletion ==
  [kind |-> "none", mode |-> "none", fieldsOk |-> FALSE, topics |-> "none"]

\* sid, user, stream, contentLen: the request. moderation: what the
\* moderation API did with the content. mode: session.mode as the controller read
\* it. chars: fullSession.participants' keys. completion: what the completion
\* call gave (its kind, mode tag, whether its strings fit the schema, and
\* its suggested_topics).
\* entries, topics: responseData after validation. idx: the runner's
\* loop position. rows: the rows this request created, in order. events: the
\* SSE events written. failure: the step that threw. outcome: the kind of
\* error that ends the request, or OK. status: the HTTP status of the answer.
IdleReq ==
  [pc |-> "idle", sid |-> 0, user |-> "none", stream |-> FALSE, contentLen |-> 0,
   moderation |-> "none", startedClosed |-> FALSE, mode |-> "none", chars |-> <<>>,
   completion |-> NoCompletion, entries |-> <<>>, topics |-> "none", idx |-> 0,
   modCalls |-> 0, complCalls |-> 0,
   rows |-> <<>>, events |-> <<>>, failure |-> "none", outcome |-> "none",
   status |-> 0]

IdlePage ==
  [phase |-> "idle", limit |-> 0, cursor |-> <<>>, last |-> <<>>, out |-> <<>>,
   fetches |-> 0]

IdleCur == [phase |-> "none", createdAt |-> 0, id |-> <<>>, cursor |-> <<>>,
            parsed |-> [timestamp |-> 0, id |-> <<>>]]

IdleCtx == [phase |-> "idle", history |-> <<>>]

\* no createSession request yet
IdleCreating == [phase |-> "idle", keys |-> <<>>, pending |-> {}, rows |-> <<>>,
                 status |-> 0]

\* concurrent startStudyParticipation calls
MaxCalls == 3
StudyCalls == 1..MaxCalls
IdleCall == [pc |-> "idle", userId |-> "none", estudoId |-> "none",
             error |-> "none", status |-> 0]
IdleStudy == [calls |-> [c \in StudyCalls |-> IdleCall], rows |-> <<>>]

NoOp == [name |-> "none", sid |-> 0, user |-> "none", outcome |-> "none", status |-> 0]

\* a step that answers no getSession, renameSession, closeSession,
\* deleteSession or getSessionSuggestions request
Silent == op' = NoOp

Init ==
  /\ sessions = [s \in SessionIds |-> NoSession]
  /\ messages = <<>>
  /\ req = IdleReq
  /\ turn = 0
  /\ page = IdlePage
  /\ cur = IdleCur
  /\ ctx = IdleCtx
  /\ study = IdleStudy
  /\ creating = IdleCreating
  /\ op = NoOp

(***************************************************************************)
(* createSession                                                           *)
(***************************************************************************)
\* prisma.character.findMany({key: {in: characterKeys}, isActive: true}).length
FoundCharacters(keys) == Cardinality({keys[i] : i \in 1..Len(keys)} \cap CharacterKeys)

\* A request naming an unknown key, or one key twice, ends in the
\* ValidationError and writes nothing; session ids are never reused.
CreateSession(s, u, mode, keys) ==
  /\ sessions[s].state = "absent"
  /\ \A t \in SessionIds : t < s => sessions[t].state # "absent"
  /\ FoundCharacters(keys) = Len(keys)
  /\ sessions' = [sessions EXCEPT ![s] =
       [state |-> "live", userId |-> u, mode |-> mode, title |-> "default",
        closed |-> FALSE, participants |-> keys, updatedAt |-> 0]]
  /\ UNCHANGED <<messages, req, turn, aux>>

(***************************************************************************)
(* closeSession, deleteSession                                             *)
(***************************************************************************)
FindOwnedSession_IgnoresUser(s, u) == sessions[s].state = "live"

\* prisma.chatSession.findFirst({where: {id, userId}})
FindOwnedSession(s, u) == sessions[s].state = "live" /\ sessions[s].userId = u

CloseSession_Toggles(s, u) ==
  /\ FindOwnedSession(s, u)
  /\ sessions' = [sessions EXCEPT ![s].closed = ~@]
  /\ UNCHANGED <<messages, req, turn, aux>>

\* A request for a session that is missing or another user's ends in the
\* NotFoundError and writes nothing.
CloseSession(s, u) ==
  /\ FindOwnedSession(s, u)
  /\ sessions' = [sessions EXCEPT ![s].closed = TRUE]
  /\ UNCHANGED <<messages, req, turn, aux>>

\* The delete cascades to the participants and the messages of the session.
DeleteSession(s, u) ==
  /\ FindOwnedSession(s, u)
  /\ sessions' = [sessions EXCEPT ![s].state = "deleted"]
  /\ messages' = SelectSeq(messages, LAMBDA m : m.sid # s)
  /\ UNCHANGED <<req, turn, aux>>

(***************************************************************************)
(* The upstream calls: moderation and structured completion                *)
(***************************************************************************)
ModerationResults == {"clean", "flagged", "outage"}

\* moderateContent: the API's verdict, or flagged=false when the call throws
ModerateContent_FailsClosed(api) == api \in {"flagged", "outage"}

ModerateContent(api) == IF api = "outage" THEN FALSE ELSE api = "flagged"

\* suggested_topics of a completion: absent, a value that is no array, or an
\* array of strings (empty or not)
RawTopics == {"missing", "nonarray", "empty", "some"}

\* What the completion call gives back: a thrown transport/API error, a choice
\* without content, text that is no JSON, or a JSON object. Of the object the
\* model keeps its mode tag, the characterKey of each entry, whether every
\* string the schema wants non-empty is one, and its suggested_topics.
CompletionResults ==
  {[kind |-> k, mode |-> "COUNCIL", entries |-> <<>>, fieldsOk |-> TRUE,
    topics |-> "missing"] : k \in {"apiFail", "empty", "nonJSON"}}
  \cup [kind : {"json"}, mode : Modes, entries : SeqsUpTo(RespKeys, MaxResp),
        fieldsOk : BOOLEAN, topics : RawTopics]

NormTopics_KeepsNonArray(raw) == IF raw = "missing" THEN "default" ELSE raw

\* "Ensure suggested_topics is always present": the mode's 3-item default
\* replaces a missing or non-array value, an array is kept as it is
NormTopics(raw) == IF raw \in {"missing", "nonarray"} THEN "default" ELSE raw

DefaultTopicsLen == 3
TopicsLen(topics) ==
  CASE topics = "default" -> DefaultTopicsLen
    [] topics = "some" -> 1
    [] OTHER -> 0

ZodParse_NoModeLiteral(mode, c) == c.fieldsOk

\* councilResponseSchema / decisionResponseSchema .parse
ZodParse(mode, c) == c.mode = mode /\ c.fieldsOk

\* createStructuredResponse, then the runner's try block around JSON.parse
\* and the schema: "ok", or the failure
ParseCompletion(mode, c) ==
  IF c.kind # "json" THEN c.kind
  ELSE IF ZodParse(mode, c) THEN "ok" ELSE "invalid"

\* The runner's catch: an OpenAIError is rethrown, anything else becomes
\* AppError(500). createStructuredResponse throws a plain Error.
RunnerError(failure) ==
  IF failure \in {"empty", "nonJSON", "invalid"} THEN "OpenAIError" ELSE "AppError"

(***************************************************************************)
(* sendMessage                                                             *)
(***************************************************************************)
\* content.length of the request bodies: empty, the longest the schema
\* accepts, and one character more
MaxContent == 2000
ContentLengths == {0, MaxContent, MaxContent + 1}

ValidateSendMessage_NoMax(len) == len >= 1

\* sendMessageSchema: content is a string of 1 to 2000 characters
ValidateSendMessage(len) == len >= 1 /\ len <= MaxContent

(***************************************************************************)
(* Errors and the global error handler                                     *)
(***************************************************************************)
\* An error object: its name, its code, and whether it has a details object.
\* The classes of utils/errors.js set name and code (and a statusCode the
\* handler never reads); a Prisma error carries a P-code.
AppErrorOf(kind) ==
  [name |-> kind,
   code |-> CASE kind = "ValidationError" -> "VALIDATION_ERROR"
              [] kind = "NotFoundError" -> "NOT_FOUND"
              [] kind = "OpenAIError" -> "OPENAI_ERROR"
              [] OTHER -> "INTERNAL_ERROR",
   details |-> FALSE]

PrismaErrorOf(code) ==
  [name |-> "PrismaClientKnownRequestError", code |-> code, details |-> FALSE]

\* errorHandler(error): the status it answers. Object.values(error.details)
\* throws when the error has no details; the error handler's own throw is
\* answered by the framework's final handler, with 500.
errorHandler_NoUniqueBranch(error) ==
  IF error.code = "P2025" THEN 404
  ELSE IF error.name = "ValidationError" THEN (IF error.details THEN 400 ELSE 500)
  ELSE IF error.name \in {"JsonWebTokenError", "TokenExpiredError"} THEN 401
  ELSE 500

errorHandler(error) ==
  IF error.code = "P2002" THEN 409
  ELSE IF error.code = "P2025" THEN 404
  ELSE IF error.name = "ValidationError" THEN (IF error.details THEN 400 ELSE 500)
  ELSE IF error.name \in {"JsonWebTokenError", "TokenExpiredError"} THEN 401
  ELSE 500

\* the error a sendMessage request ends with
ErrorOf(q) ==
  IF q.outcome # "DbError" THEN AppErrorOf(q.outcome)
  ELSE IF sessions[q.sid].state = "live" THEN PrismaErrorOf("other")
  ELSE IF q.failure = "touch" THEN PrismaErrorOf("P2025")
  ELSE PrismaErrorOf("P2003")

\* res.headersSent: the stream branch has written its 200 head
HeadersSent(q) == q.stream /\ q.failure \notin {"none", "userRow"}

\* the status of the answer: validateRequest's 400, sendSuccess's 200, the
\* 200 head of a stream, or what errorHandler makes of next(error)
StatusOf(q) ==
  IF q.outcome = "BadRequest" THEN 400
  ELSE IF q.outcome = "OK" \/ HeadersSent(q) THEN 200
  ELSE errorHandler(ErrorOf(q))

Answer(q) == IF q.pc = "done" THEN [q EXCEPT !.status = StatusOf(q)] ELSE q

FindSessionForSend_IgnoresClosed(s, u) == FindOwnedSession(s, u)

\* prisma.chatSession.findFirst({where: {id, userId, closed: false}})
FindSessionForSend(s, u) == FindOwnedSession(s, u) /\ ~sessions[s].closed

PcAfterModeration_SkipsSave(flagged) == IF flagged THEN "done" ELSE "orch"

\* after the moderation verdict: the ValidationError, or the USER row
PcAfterModeration(flagged) == IF flagged THEN "done" ELSE "saveUser"

Row(s, role, key, r) == [sid |-> s, role |-> role, authorKey |-> key, turn |-> r]

\* prisma.message.create: the row is appended; the insert cannot succeed once
\* the session row is gone (foreign key), and may fail for any other reason
CanCreate(s, ok) == ok /\ sessions[s].state = "live"

Created(q, role, key) == [q EXCEPT !.rows = Append(@, [role |-> role, authorKey |-> key])]

\* The SSE helpers: what one call writes to the response. An event is its
\* type, the characterKey in its data (if any) and the keys of its JSON object.
sendSSEEvent(eventType, key) ==
  [type |-> eventType, key |-> key, fields |-> {"type", "data", "timestamp"}]
sendSSEError == [type |-> "error", key |-> "none", fields |-> {"type", "error", "timestamp"}]
closeSSE == [type |-> "close", key |-> "none", fields |-> {"type"}]

\* `if (stream && res)` around the writes of the runners; the controller's
\* stream branch writes only when stream is set
Emit(q, evs) == IF q.stream THEN [q EXCEPT !.events = @ \o evs] ELSE q

\* A throw inside a runner: the runner's catch writes an error event and
\* rethrows, the controller's catch writes another and closes the stream.
FailInRunner_Retries(q, failure) ==
  IF failure \in {"apiFail", "empty", "nonJSON", "invalid"} /\ q.complCalls < 2
    THEN [q EXCEPT !.pc = "completion"]
    ELSE Answer([Emit(q, <<sendSSEError, sendSSEError, closeSSE>>) EXCEPT
                   !.pc = "done", !.failure = failure, !.outcome = RunnerError(failure)])

FailInRunner(q, failure) ==
  Answer([Emit(q, <<sendSSEError, sendSSEError, closeSSE>>) EXCEPT
            !.pc = "done", !.failure = failure, !.outcome = RunnerError(failure)])

\* index of the first entry at or after i whose characterKey is a participant
NextIdx_NoFilter(entries, chars, i) == i

RECURSIVE NextIdx(_, _, _)
NextIdx(entries, chars, i) ==
  IF i > Len(entries) THEN i
  ELSE IF \E k \in 1..Len(chars) : chars[k] = entries[i] THEN i
  ELSE NextIdx(entries, chars, i + 1)

AfterSummary(q) == IF TopicsLen(q.topics) > 0 THEN "system" ELSE "finish"
AfterChars_SkipsSummary(q) == AfterSummary(q)

AfterChars(q) == IF q.mode = "DECISION" THEN "summary" ELSE AfterSummary(q)

\* the for loop over responseData.messages / analyses, up to its next create
Advance(q, i) ==
  LET j == NextIdx(q.entries, q.chars, i) IN
  IF j <= Len(q.entries) THEN [q EXCEPT !.pc = "persist", !.idx = j]
  ELSE [q EXCEPT !.pc = AfterChars(q), !.idx = j]

StartEvent(mode) == IF mode = "COUNCIL" THEN "council_start" ELSE "decision_start"
CharEvent(mode) == IF mode = "COUNCIL" THEN "character_response" ELSE "character_analysis"
CompleteEvent(mode) == IF mode = "COUNCIL" THEN "council_complete" ELSE "decision_complete"

\* POST /sessions/:id/message: validateRequest(sendMessageSchema) answers 400
\* itself, or calls the controller, which starts with the session lookup
SendStart ==
  \E s \in SessionIds, u \in Users, st \in BOOLEAN, len \in ContentLengths :
    /\ req.pc \in {"idle", "done"}
    /\ turn < MaxTurns
    /\ turn' = turn + 1
    /\ LET r == [IdleReq EXCEPT !.sid = s, !.user = u, !.stream = st,
                                !.contentLen = len]
           q == [r EXCEPT
                   !.startedClosed = sessions[s].state = "live" /\ sessions[s].closed]
       IN req' = Answer(
                   IF ~ValidateSendMessage(len)
                     THEN [r EXCEPT !.pc = "done", !.outcome = "BadRequest"]
                   ELSE IF FindSessionForSend(s, u)
                     THEN [q EXCEPT !.pc = "moderate", !.mode = sessions[s].mode]
                     ELSE [q EXCEPT !.pc = "done", !.outcome = "NotFoundError"])
    /\ UNCHANGED <<sessions, messages, aux>>

Moderate ==
  \E api \in ModerationResults :
    /\ req.pc = "moderate"
    /\ LET q == [req EXCEPT !.modCalls = @ + 1, !.moderation = api]
           flagged == ModerateContent(api)
       IN req' = Answer([q EXCEPT !.pc = PcAfterModeration(flagged),
                                  !.outcome = IF flagged THEN "ValidationError" ELSE @])
    /\ UNCHANGED <<sessions, messages, turn, aux>>

SaveUser ==
  \E ok \in BOOLEAN :
    /\ req.pc = "saveUser"
    /\ IF CanCreate(req.sid, ok)
         THEN /\ messages' = Append(messages, Row(req.sid, "USER", "none", turn))
              /\ req' = [Created(req, "USER", "none") EXCEPT !.pc = "orch"]
         ELSE /\ req' = Answer([req EXCEPT !.pc = "done", !.failure = "userRow",
                                           !.outcome = "DbError"])
              /\ UNCHANGED messages
    /\ UNCHANGED <<sessions, turn, aux>>

\* orchestrateChat up to the runner's completion call
Orchestrate_NoFinally ==
  /\ req.pc = "orch"
  /\ req' = IF sessions[req.sid].state # "live"
              THEN Answer([Emit(req, <<sendSSEError>>) EXCEPT
                      !.pc = "done", !.failure = "session", !.outcome = "AppError"])
              ELSE [Emit(req, <<sendSSEEvent(StartEvent(req.mode), "none")>>) EXCEPT
                      !.pc = "completion", !.chars = sessions[req.sid].participants]
  /\ UNCHANGED <<sessions, messages, turn, aux>>

Orchestrate ==
  /\ req.pc = "orch"
  /\ req' = IF sessions[req.sid].state # "live"
              THEN Answer([Emit(req, <<sendSSEError, closeSSE>>) EXCEPT
                      !.pc = "done", !.failure = "session", !.outcome = "AppError"])
              ELSE [Emit(req, <<sendSSEEvent(StartEvent(req.mode), "none")>>) EXCEPT
                      !.pc = "completion", !.chars = sessions[req.sid].participants]
  /\ UNCHANGED <<sessions, messages, turn, aux>>

Completion ==
  \E c \in CompletionResults :
    /\ req.pc = "completion"
    /\ LET q == [req EXCEPT !.complCalls = @ + 1,
                             !.completion = [kind |-> c.kind, mode |-> c.mode,
                                             fieldsOk |-> c.fieldsOk,
                                             topics |-> c.topics]]
           parsed == ParseCompletion(q.mode, c)
       IN req' = IF parsed # "ok" THEN FailInRunner(q, parsed)
                 ELSE Advance([q EXCEPT !.entries = c.entries,
                                        !.topics = NormTopics(c.topics)], 1)
    /\ UNCHANGED <<sessions, messages, turn, aux>>

\* the character event written before its row is created
PersistChar_EmitsFirst ==
  \E ok \in BOOLEAN :
    /\ req.pc = "persist"
    /\ LET key == req.entries[req.idx]
           q == Emit(req, <<sendSSEEvent(CharEvent(req.mode), key)>>) IN
       IF CanCreate(req.sid, ok)
         THEN /\ messages' = Append(messages, Row(req.sid, "CHARACTER", key, turn))
              /\ req' = Advance(Created(q, "CHARACTER", key), req.idx + 1)
         ELSE /\ req' = FailInRunner(q, "persist")
              /\ UNCHANGED messages
    /\ UNCHANGED <<sessions, turn, aux>>

PersistChar ==
  \E ok \in BOOLEAN :
    /\ req.pc = "persist"
    /\ LET key == req.entries[req.idx] IN
       IF CanCreate(req.sid, ok)
         THEN /\ messages' = Append(messages, Row(req.sid, "CHARACTER", key, turn))
              /\ req' = Advance(Emit(Created(req, "CHARACTER", key),
                                     <<sendSSEEvent(CharEvent(req.mode), key)>>),
                                req.idx + 1)
         ELSE /\ req' = FailInRunner(req, "persist")
              /\ UNCHANGED messages
    /\ UNCHANGED <<sessions, turn, aux>>

PersistSummary ==
  \E ok \in BOOLEAN :
    /\ req.pc = "summary"
    /\ IF CanCreate(req.sid, ok)
         THEN /\ messages' = Append(messages, Row(req.sid, "SUMMARY", "none", turn))
              /\ req' = [Emit(Created(req, "SUMMARY", "none"),
                                <<sendSSEEvent("final_decision", "none")>>)
                           EXCEPT !.pc = AfterSummary(req)]
         ELSE /\ req' = FailInRunner(req, "persist")
              /\ UNCHANGED messages
    /\ UNCHANGED <<sessions, turn, aux>>

PersistSystem ==
  \E ok \in BOOLEAN :
    /\ req.pc = "system"
    /\ IF CanCreate(req.sid, ok)
         THEN /\ messages' = Append(messages, Row(req.sid, "SYSTEM", "none", turn))
              /\ req' = [Created(req, "SYSTEM", "none") EXCEPT !.pc = "finish"]
         ELSE /\ req' = FailInRunner(req, "persist")
              /\ UNCHANGED messages
    /\ UNCHANGED <<sessions, turn, aux>>

\* The runner returns. Streaming: the runner's completion event, the
\* controller's 'complete' event, closeSSE. Buffered: the session's updatedAt
\* is written, and the result is sent.
Finish ==
  \E ok \in BOOLEAN :
    /\ req.pc = "finish"
    /\ req' = Answer(
                IF req.stream
                  THEN [Emit(req, <<sendSSEEvent(CompleteEvent(req.mode), "none"),
                                    sendSSEEvent("complete", "none"), closeSSE>>)
                          EXCEPT !.pc = "done", !.outcome = "OK"]
                ELSE IF CanCreate(req.sid, ok)
                  THEN [req EXCEPT !.pc = "done", !.outcome = "OK"]
                  ELSE [req EXCEPT !.pc = "done", !.failure = "touch",
                                   !.outcome = "DbError"])
    /\ sessions' = IF ~req.stream /\ CanCreate(req.sid, ok)
                     THEN [sessions EXCEPT ![req.sid].updatedAt = turn]
                     ELSE sessions
    /\ UNCHANGED <<messages, turn, aux>>

(***************************************************************************)
(* The requests on a session id, with their answers                        *)
(*                                                                         *)
(* The client sends one request at a time: a sendMessage (req), or one of  *)
(* the requests below, which any user asks of any session id; op is the    *)
(* request the last step answered.                                         *)
(***************************************************************************)
Titles == {"novo"}

Respond(name, s, u, outcome) ==
  [name |-> name, sid |-> s, user |-> u, outcome |-> outcome,
   status |-> IF outcome = "OK" THEN 200 ELSE errorHandler(AppErrorOf(outcome))]

\* the client's next request: the one before it has been answered
Ask ==
  /\ req.pc \in {"idle", "done"}
  /\ turn < MaxTurns
  /\ turn' = turn + 1
  /\ req' = IdleReq
  /\ UNCHANGED aux

\* if (!session) throw new NotFoundError('Chat session')
NotFound(name, s, u) ==
  /\ ~FindOwnedSession(s, u)
  /\ op' = Respond(name, s, u, "NotFoundError")
  /\ UNCHANGED <<sessions, messages>>

\* the session with a page of its messages (the page: GetSession)
getSession(s, u) ==
  /\ Ask
  /\ \/ NotFound("getSession", s, u)
     \/ /\ FindOwnedSession(s, u)
        /\ op' = Respond("getSession", s, u, "OK")
        /\ UNCHANGED <<sessions, messages>>

renameSession(s, u, title) ==
  /\ Ask
  /\ \/ NotFound("renameSession", s, u)
     \/ /\ FindOwnedSession(s, u)
        /\ sessions' = [sessions EXCEPT ![s].title = title]
        /\ op' = Respond("renameSession", s, u, "OK")
        /\ UNCHANGED messages

closeSession(s, u) ==
  /\ Ask
  /\ \/ NotFound("closeSession", s, u)
     \/ /\ FindOwnedSession(s, u)
        /\ sessions' = [sessions EXCEPT ![s].closed = TRUE]
        /\ op' = Respond("closeSession", s, u, "OK")
        /\ UNCHANGED messages

deleteSession(s, u) ==
  /\ Ask
  /\ \/ NotFound("deleteSession", s, u)
     \/ /\ FindOwnedSession(s, u)
        /\ sessions' = [sessions EXCEPT ![s].state = "deleted"]
        /\ messages' = SelectSeq(messages, LAMBDA m : m.sid # s)
        /\ op' = Respond("deleteSession", s, u, "OK")

\* the suggested topics of the latest SYSTEM message, [] without one
getSessionSuggestions(s, u) ==
  /\ Ask
  /\ \/ NotFound("getSessionSuggestions", s, u)
     \/ /\ FindOwnedSession(s, u)
        /\ op' = Respond("getSessionSuggestions", s, u, "OK")
        /\ UNCHANGED <<sessions, messages>>

Next ==
  \/ \E s \in SessionIds, u \in Owners, mode \in Modes, keys \in KeyLists :
       CreateSession(s, u, mode, keys) /\ Silent
  \/ \E s \in SessionIds, u \in Users : CloseSession(s, u) /\ Silent
  \/ \E s \in SessionIds, u \in Users : DeleteSession(s, u) /\ Silent
  \/ \E s \in SessionIds, u \in Users : getSession(s, u)
  \/ \E s \in SessionIds, u \in Users, title \in Titles : renameSession(s, u, title)
  \/ \E s \in SessionIds, u \in Users : closeSession(s, u)
  \/ \E s \in SessionIds, u \in Users : deleteSession(s, u)
  \/ \E s \in SessionIds, u \in Users : getSessionSuggestions(s, u)
  \/ SendStart /\ Silent
  \/ Moderate /\ Silent
  \/ SaveUser /\ Silent
  \/ Orchestrate /\ Silent
  \/ Completion /\ Silent
  \/ PersistChar /\ Silent
  \/ PersistSummary /\ Silent
  \/ PersistSystem /\ Silent
  \/ Finish /\ Silent

Spec == Init /\ [][Next]_vars

(***************************************************************************)
(* Properties of a turn                                                    *)
(***************************************************************************)
AIRoles == {"CHARACTER", "SUMMARY", "SYSTEM"}

CountRole(rows, role) == Cardinality({i \in 1..Len(rows) : rows[i].role = role})

\* the rows of the request in flight that are in the store
StoredOfTurn == {i \in 1..Len(messages) : messages[i].turn = turn}

\* participant.orderIndex of a character key (0-based)
OrderIndex(chars, key) == CHOOSE k \in 0..Len(chars) - 1 : chars[k + 1] = key

Succeeded == req.pc = "done" /\ req.outcome = "OK"

\* C1: a sendMessage that starts on a session closeSession has closed ends in
\* the NotFoundError, creates no Message row and calls neither the moderation
\* nor the completion API.
C1_ClosedSessionRefusesSend ==
  req.startedClosed =>
    /\ req.pc = "done" /\ req.outcome = "NotFoundError"
    /\ req.rows = <<>> /\ StoredOfTurn = {}
    /\ req.modCalls = 0 /\ req.complCalls = 0

C1_Witness == req.startedClosed /\ req.pc = "done"

\* C2: a successful Council turn on a session with N participants persists
\* exactly N CHARACTER rows, and one SYSTEM row iff suggested topics are
\* present (none otherwise).
C2_CouncilPersistsN ==
  (Succeeded /\ req.mode = "COUNCIL") =>
    /\ CountRole(req.rows, "CHARACTER") = Len(req.chars)
    /\ CountRole(req.rows, "SYSTEM") = (IF TopicsLen(req.topics) > 0 THEN 1 ELSE 0)

\* C3: a successful Decision turn on a session with N participants persists
\* exactly N CHARACTER rows and exactly one SUMMARY row.
C3_DecisionPersistsN ==
  (Succeeded /\ req.mode = "DECISION") =>
    /\ CountRole(req.rows, "CHARACTER") = Len(req.chars)
    /\ CountRole(req.rows, "SUMMARY") = 1

\* C4: the CHARACTER rows of a turn are created in ascending participant
\* orderIndex, whatever the order of the completion's entries.
C4_RowsInOrderIndexOrder ==
  \A i, j \in 1..Len(req.rows) :
    (i < j /\ req.rows[i].role = "CHARACTER" /\ req.rows[j].role = "CHARACTER") =>
      OrderIndex(req.chars, req.rows[i].authorKey)
        <= OrderIndex(req.chars, req.rows[j].authorKey)

\* the completion call threw, gave no content, gave text that is no JSON, or
\* gave an object the mode's schema rejects
CompletionFailed ==
  /\ req.complCalls > 0
  /\ \/ req.completion.kind # "json"
     \/ req.completion.mode # req.mode
     \/ ~req.completion.fieldsOk

\* C5: a turn whose completion fails (call, empty content, non-JSON, schema)
\* writes nothing: the only row of the turn is the USER row written before.
C5_FailedCompletionWritesNothing ==
  CompletionFailed =>
    /\ req.pc = "done" /\ req.outcome # "OK"
    /\ \A i \in 1..Len(req.rows) : req.rows[i].role \notin AIRoles
    /\ \A i \in StoredOfTurn : messages[i].role \notin AIRoles

C5_Witness ==
  /\ CompletionFailed /\ req.completion.kind = "json" /\ req.completion.fieldsOk
  /\ req.pc = "done" /\ StoredOfTurn # {}

\* C6: in buffered mode a turn that ends in an error leaves none of its
\* CHARACTER, SUMMARY or SYSTEM rows persisted.
C6_BufferedNeverHalfWritten ==
  (~req.stream /\ req.pc = "done" /\ req.outcome # "OK") =>
    \A i \in StoredOfTurn : messages[i].role \notin AIRoles

\* the request has passed moderation and the save of the USER row
Orchestrating ==
  \/ req.pc \in {"orch", "completion", "persist", "summary", "system", "finish"}
  \/ req.pc = "done" /\ req.failure \notin {"none", "userRow"}
  \/ Succeeded

\* C7: the USER row is created before orchestration starts and stays in the
\* store whatever the outcome of the turn, buffered or streaming.
C7_UserMessageDurable ==
  Orchestrating =>
    /\ req.rows # <<>> /\ req.rows[1].role = "USER"
    /\ sessions[req.sid].state = "live" =>
         \E i \in StoredOfTurn : messages[i] = Row(req.sid, "USER", "none", turn)

C7_Witness ==
  /\ req.pc = "done" /\ req.failure = "persist" /\ req.stream
  /\ sessions[req.sid].state = "live"
  /\ \E i \in StoredOfTurn : messages[i].role = "CHARACTER"

\* C12: a sendMessage request whose content is empty or longer than 2000
\* characters is answered 400 before the controller runs: no moderation call,
\* no completion call, no Message row, no SSE event.
C12_LongContentRejected ==
  (req.pc # "idle" /\ (req.contentLen > MaxContent \/ req.contentLen = 0)) =>
    /\ req.pc = "done" /\ req.outcome = "BadRequest"
    /\ req.modCalls = 0 /\ req.complCalls = 0
    /\ req.rows = <<>> /\ StoredOfTurn = {} /\ req.events = <<>>
    /\ req.mode = "none"

C12_Witness ==
  /\ req.pc = "done" /\ req.contentLen = MaxContent + 1
  /\ FindSessionForSend(req.sid, req.user)

\* C13: when the moderation call throws, moderateContent gives flagged=false:
\* the request is not refused for its content, goes on to save the USER row
\* and, with the row saved, to orchestration, as for unflagged content.
C13_ModerationFailsOpen ==
  req.moderation = "outage" =>
    /\ req.outcome # "ValidationError"
    /\ req.pc = "saveUser" \/ req.failure = "userRow" \/ Orchestrating
    /\ Orchestrating => req.rows[1] = [role |-> "USER", authorKey |-> "none"]

C13_Witness ==
  /\ req.moderation = "outage" /\ Succeeded
  /\ \E i \in StoredOfTurn : messages[i].role = "USER"

\* C14: when moderation flags the content, the turn stops without a
\* completion call and without CHARACTER, SUMMARY or SYSTEM rows, and the
\* user's message is stored as a USER row carrying the moderation categories.
C14_FlaggedMessageStored ==
  (req.moderation = "flagged" /\ req.pc = "done") =>
    /\ req.complCalls = 0
    /\ \A i \in StoredOfTurn : messages[i].role \notin AIRoles
    /\ sessions[req.sid].state = "live" =>
         \E i \in StoredOfTurn : messages[i].role = "USER"

\* the events of the turn that tell of its progress, in the order written
ProgressTypes ==
  {"council_start", "decision_start", "character_response", "character_analysis",
   "final_decision", "council_complete", "decision_complete"}
ProgressEvents == SelectSeq(req.events, LAMBDA e : e.type \in ProgressTypes)

\* the place of an event type in the order start, characters, decision, completion
Rank(type) ==
  CASE type \in {"council_start", "decision_start"} -> 0
    [] type \in {"character_response", "character_analysis"} -> 1
    [] type = "final_decision" -> 2
    [] OTHER -> 3

KeysOf(seq, P(_)) == LET sel == SelectSeq(seq, P) IN [i \in 1..Len(sel) |-> sel[i].key]
CharRowKeys ==
  LET sel == SelectSeq(req.rows, LAMBDA r : r.role = "CHARACTER")
  IN [i \in 1..Len(sel) |-> sel[i].authorKey]
CountType(type) == Cardinality({i \in 1..Len(req.events) : req.events[i].type = type})

\* C15: in streaming mode the events of a turn mirror its rows: the start
\* event of the mode comes first, the character events are those of the
\* CHARACTER rows created so far, in the rows' order, final_decision is there
\* iff the SUMMARY row is, the mode's completion event is written once, after
\* the last row of a turn that succeeds, and the order is never broken.
C15_EventsMirrorRows ==
  req.stream =>
    LET evs == ProgressEvents IN
    /\ evs # <<>> => evs[1].type = StartEvent(req.mode)
    /\ \A i, j \in 1..Len(evs) :
         i < j => /\ Rank(evs[i].type) <= Rank(evs[j].type)
                  /\ Rank(evs[i].type) # 1 => Rank(evs[i].type) < Rank(evs[j].type)
    /\ \A i \in 1..Len(evs) :
         evs[i].type \in {StartEvent(req.mode), CharEvent(req.mode), "final_decision",
                          CompleteEvent(req.mode)}
    /\ KeysOf(evs, LAMBDA e : Rank(e.type) = 1) = CharRowKeys
    /\ CountType("final_decision") = CountRole(req.rows, "SUMMARY")
    /\ CountType("final_decision") > 0 => req.mode = "DECISION"
    /\ CountType(CompleteEvent(req.mode)) = (IF Succeeded THEN 1 ELSE 0)

C15_Witness ==
  /\ req.stream /\ Succeeded /\ req.mode = "DECISION"
  /\ CharRowKeys = <<"salomao", "moises">>
  /\ Len(ProgressEvents) = 5

\* a streaming turn that failed in orchestration (orchestrateChat threw)
StreamFailed ==
  /\ req.stream /\ req.pc = "done"
  /\ req.failure \in {"session", "apiFail", "empty", "nonJSON", "invalid", "persist"}

\* C16: a streaming turn that fails in orchestration writes exactly one error
\* event, then the stream is closed; it writes no completion event.
C16_SingleErrorEvent ==
  StreamFailed =>
    /\ CountType("error") = 1
    /\ req.events[Len(req.events)].type = "close"
    /\ \A i \in 1..Len(req.events) :
         req.events[i].type \notin {"council_complete", "decision_complete", "complete"}

RecognizedTypes ==
  {"connected", "council_start", "decision_start", "character_response",
   "character_analysis", "final_decision", "council_complete", "decision_complete",
   "error", "close"}

\* C17: every event written to the stream of a turn is a JSON object with the
\* keys type, data and timestamp and a recognized type, and a turn that
\* succeeds carries exactly one completion event.
C17_EventsWellFormed ==
  /\ \A i \in 1..Len(req.events) :
       /\ req.events[i].fields = {"type", "data", "timestamp"}
       /\ req.events[i].type \in RecognizedTypes
  /\ (req.stream /\ Succeeded) =>
       Cardinality({i \in 1..Len(req.events) :
                      req.events[i].type \in {"council_complete", "decision_complete",
                                               "complete"}}) = 1

\* C11 as stated: in a successful turn of either mode the suggested topics
\* are never empty, and a SYSTEM row carrying them is persisted.
C11_TopicsNeverEmpty ==
  Succeeded =>
    /\ TopicsLen(req.topics) > 0
    /\ CountRole(req.rows, "SYSTEM") = 1

\* C11 amended: in a successful turn whose completion has no suggested_topics
\* or a value that is no array, the topics are the mode's 3-item default and
\* one SYSTEM row is persisted; an array the completion gave is kept as it is.
C11_MissingTopicsDefaulted ==
  Succeeded =>
    /\ req.completion.topics \in {"missing", "nonarray"} =>
         /\ req.topics = "default" /\ TopicsLen(req.topics) = DefaultTopicsLen
         /\ CountRole(req.rows, "SYSTEM") = 1
    /\ req.completion.topics \in {"empty", "some"} =>
         req.topics = req.completion.topics

C11_Witness ==
  /\ Succeeded /\ req.completion.topics = "nonarray" /\ req.mode = "DECISION"
  /\ \E i \in StoredOfTurn : messages[i].role = "SYSTEM"

\* C21: an error a chat controller passes to the global error handler is
\* answered with the status of its kind: ValidationError 400, NotFoundError
\* 404 (the response has not started, as in buffered mode).
C21_ErrorStatusOfKind ==
  /\ (req.pc = "done" /\ ~HeadersSent(req)) =>
       /\ req.outcome = "ValidationError" => req.status = 400
       /\ req.outcome = "NotFoundError" => req.status = 404
  /\ op.outcome = "NotFoundError" => op.status = 404

\* the completion call threw, or its text could not be parsed or validated
UpstreamFailed == req.pc = "done" /\ CompletionFailed

\* C22: a turn that fails in the completion call, or in parsing or validating
\* its text, ends with the OpenAIError (502 in buffered mode), never with the
\* generic AppError (500).
C22_UpstreamErrorKind ==
  UpstreamFailed =>
    /\ req.outcome = "OpenAIError"
    /\ ~req.stream => req.status = 502

\* orchestrateChat was called and the turn is past the runner's completion step
PastCompletion == Orchestrating /\ req.pc \notin {"orch", "completion"}

\* C25: a turn makes at most one moderation call and at most one completion
\* call, and exactly one completion call when it reaches orchestration.
C25_OneCallPerTurn ==
  /\ req.modCalls <= 1 /\ req.complCalls <= 1
  /\ PastCompletion => req.complCalls = 1

\* C25, amended: ... exactly one completion call when orchestration finds the
\* session (none when the session row is gone by the time it is reloaded);
\* a failed completion call is not repeated.
C25_OneCallWhenSessionFound ==
  /\ req.modCalls <= 1 /\ req.complCalls <= 1
  /\ Orchestrating => req.modCalls = 1
  /\ (PastCompletion /\ req.failure # "session") => req.complCalls = 1
  /\ (PastCompletion /\ req.failure = "session") => req.complCalls = 0
  /\ ~Orchestrating => req.complCalls = 0

\* a completion call failed and the turn ended after that one call
C25_Witness ==
  /\ req.pc = "done" /\ req.failure \in {"apiFail", "empty", "nonJSON", "invalid"}
  /\ req.modCalls = 1 /\ req.complCalls = 1

C26_Step ==
  (req.pc # "done" /\ req'.pc = "done" /\ req'.outcome = "OK")
    => sessions'[req.sid].updatedAt > sessions[req.sid].updatedAt

\* C26: the step that completes a successful turn, buffered or streaming,
\* leaves the session's updatedAt later than it was.
C26_SuccessTouchesSession == [][C26_Step]_vars

\* the place of a role in the order a turn persists its rows
RoleRank(role) ==
  CASE role = "USER" -> 0
    [] role = "CHARACTER" -> 1
    [] role = "SUMMARY" -> 2
    [] OTHER -> 3

\* the positions of the events of a type in the stream
EventsAt(type) == {i \in 1..Len(req.events) : req.events[i].type = type}

\* C27: a Decision turn persists its CHARACTER analyses first, then the one
\* SUMMARY row, then (if there are topics) the one SYSTEM row; in streaming
\* mode final_decision is written once, after every character_analysis and
\* before decision_complete.
C27_DecisionOrder ==
  req.mode = "DECISION" =>
    LET stored == SelectSeq(messages, LAMBDA m : m.turn = turn) IN
    /\ \A rows \in {req.rows, stored} : \A i, j \in 1..Len(rows) :
         i < j => /\ RoleRank(rows[i].role) <= RoleRank(rows[j].role)
                  /\ RoleRank(rows[i].role) # 1 =>
                       RoleRank(rows[i].role) < RoleRank(rows[j].role)
    /\ CountRole(req.rows, "SYSTEM") > 0 => CountRole(req.rows, "SUMMARY") = 1
    /\ req.pc \in {"system", "finish"} \/ Succeeded =>
         CountRole(req.rows, "SUMMARY") = 1
    /\ req.pc = "finish" \/ Succeeded =>
         CountRole(req.rows, "SYSTEM") = (IF AfterSummary(req) = "system" THEN 1 ELSE 0)
    /\ req.stream =>
         /\ Cardinality(EventsAt("final_decision")) <= 1
         /\ \A f \in EventsAt("final_decision") :
              /\ \A a \in EventsAt("character_analysis") : a < f
              /\ \A c \in EventsAt("decision_complete") : f < c
         /\ EventsAt("decision_complete") # {} => EventsAt("final_decision") # {}

\* a streamed Decision turn that succeeded with analyses, decision and topics
C27_Witness ==
  /\ Succeeded /\ req.stream /\ req.mode = "DECISION"
  /\ CountRole(req.rows, "CHARACTER") > 0
  /\ CountRole(req.rows, "SUMMARY") = 1 /\ CountRole(req.rows, "SYSTEM") = 1
  /\ EventsAt("character_analysis") # {} /\ EventsAt("decision_complete") # {}

\* the keys of a sequence of character keys
Range(seq) == {seq[i] : i \in 1..Len(seq)}

\* C29: every CHARACTER row a turn persists, and every character event it
\* streams, carries the key of a participant of the session; an entry of the
\* completion whose characterKey is no participant is skipped.
C29_AuthorsAreParticipants ==
  /\ \A i \in 1..Len(req.rows) :
       req.rows[i].role = "CHARACTER" => req.rows[i].authorKey \in Range(req.chars)
  /\ \A i \in 1..Len(req.events) :
       req.events[i].type \in {"character_response", "character_analysis"}
         => req.events[i].key \in Range(req.chars)
  /\ \A i \in 1..Len(messages) :
       messages[i].role = "CHARACTER" =>
         messages[i].authorKey \in Range(sessions[messages[i].sid].participants)

\* the completion named a character that is no participant, and the turn
\* went on to stream and persist a participant's entry
C29_Witness ==
  /\ Succeeded /\ req.stream
  /\ \E i \in 1..Len(req.entries) : req.entries[i] \notin Range(req.chars)
  /\ CountRole(req.rows, "CHARACTER") > 0
  /\ \E i \in StoredOfTurn : messages[i].role = "CHARACTER"

\* the SSE response has started: writeHead(200) was called
StreamStarted == req.stream /\ Orchestrating

\* the positions of the close events in the stream
Closes == {i \in 1..Len(req.events) : req.events[i] = closeSSE}

\* C30: a streaming sendMessage that started its SSE response and returned
\* has written exactly one close event, as the last event of the stream; no
\* close is written before the handler is done and nothing is written after.
C30_StreamClosedOnce ==
  /\ Cardinality(Closes) <= 1
  /\ Closes # {} => /\ Closes = {Len(req.events)}
                    /\ req.pc = "done"
  /\ (StreamStarted /\ req.pc = "done") => Cardinality(Closes) = 1
  /\ ~req.stream => req.events = <<>>

\* a stream closed after success, or after orchestration threw
C30_Witness ==
  /\ StreamStarted /\ req.pc = "done" /\ req.failure = "session"
  /\ Closes = {Len(req.events)}
  /\ \E i \in 1..Len(req.events) : req.events[i] = sendSSEError

\* number of Message rows of a session
RowCount(msgs, s) == Cardinality({i \in 1..Len(msgs) : msgs[i].sid = s})

C24_Step ==
  \A s \in SessionIds :
    (sessions[s].state = "live" /\ sessions[s].closed)
      => RowCount(messages', s) <= RowCount(messages, s)

\* C24: no step creates a Message row in a session whose closed flag is set,
\* a close that lands while a sendMessage is in flight included.
C24_NoRowAfterClose == [][C24_Step]_vars

\* the session exists and is the user's
IsOwner(s, u) == sessions[s].state = "live" /\ sessions[s].userId = u

\* the step is the start of a sendMessage request that passed validation
SendStarted == turn' = turn + 1 /\ req'.pc # "idle" /\ req'.outcome # "BadRequest"

C19_Step ==
  /\ (op'.name # "none" /\ ~IsOwner(op'.sid, op'.user)) =>
       /\ op'.outcome = "NotFoundError"
       /\ UNCHANGED <<sessions, messages>>
  /\ (SendStarted /\ (~IsOwner(req'.sid, req'.user) \/ sessions[req'.sid].closed)) =>
       /\ req'.pc = "done" /\ req'.outcome = "NotFoundError"
       /\ UNCHANGED <<sessions, messages>>

\* C19: getSession, renameSession, closeSession, deleteSession and
\* getSessionSuggestions asked by a user who does not own the session answer
\* the NotFoundError of a missing session and change nothing of the sessions
\* and messages; so does sendMessage, also on a closed session of the caller.
C19_NonOwnerSeesNotFound == [][C19_Step]_vars

C19_Witness ==
  /\ op.name = "deleteSession" /\ op.user = "u2" /\ op.outcome = "NotFoundError"
  /\ sessions[op.sid].state = "live" /\ sessions[op.sid].userId = "u1"

C20_Step ==
  /\ \A s \in SessionIds :
       /\ (sessions[s].state = "live" /\ sessions[s].closed) =>
            (sessions'[s].state = "deleted" \/ sessions'[s].closed)
       /\ sessions[s].state = "deleted" => sessions'[s].state = "deleted"
  /\ (op'.name # "none" /\ IsOwner(op'.sid, op'.user) /\ sessions[op'.sid].closed) =>
       op'.outcome = "OK"
  /\ (SendStarted /\ IsOwner(req'.sid, req'.user) /\ sessions[req'.sid].closed) =>
       req'.pc = "done" /\ req'.outcome = "NotFoundError"

\* C20: a closed session is never open again, whatever requests follow; its
\* owner's getSession, renameSession, closeSession, getSessionSuggestions and
\* deleteSession still succeed on it, and sendMessage alone is refused.
C20_ClosedIsTerminal == [][C20_Step]_vars

C20_Witness ==
  /\ op.name = "renameSession" /\ op.outcome = "OK"
  /\ sessions[op.sid].closed /\ sessions[op.sid].title = "novo"

(***************************************************************************)
(* The message cursor (src/src/utils/pagination.js)                        *)
(*                                                                         *)
(* A string is the sequence of its character codes; a base64 text is the   *)
(* sequence of its characters' values in the base64 alphabet, Pad for '='. *)
(***************************************************************************)
Dash == 45     \* '-'
Zero == 48     \* '0'
Pad == 64      \* '=' in a base64 text

\* the characters of `${n}` for an integer n >= 0
RECURSIVE ToDigits(_)
ToDigits(n) ==
  IF n < 10 THEN <<Zero + n>> ELSE Append(ToDigits(n \div 10), Zero + (n % 10))

IsDigit(ch) == ch >= Zero /\ ch <= Zero + 9

\* parseInt(s): the number the leading digits of s spell, NaN without any
NaN == -1
RECURSIVE ParseDigits(_, _, _)
ParseDigits(s, i, acc) ==
  IF i > Len(s) \/ ~IsDigit(s[i]) THEN acc
  ELSE ParseDigits(s, i + 1, acc * 10 + (s[i] - Zero))

ParseInt(s) == IF s = <<>> \/ ~IsDigit(s[1]) THEN NaN ELSE ParseDigits(s, 1, 0)

\* Buffer.from(bytes).toString('base64')
RECURSIVE Base64Encode(_)
Base64Encode(b) ==
  IF Len(b) = 0 THEN <<>>
  ELSE IF Len(b) = 1 THEN <<b[1] \div 4, (b[1] % 4) * 16, Pad, Pad>>
  ELSE IF Len(b) = 2 THEN
    <<b[1] \div 4, (b[1] % 4) * 16 + b[2] \div 16, (b[2] % 16) * 4, Pad>>
  ELSE <<b[1] \div 4, (b[1] % 4) * 16 + b[2] \div 16,
         (b[2] % 16) * 4 + b[3] \div 64, b[3] % 64>>
       \o Base64Encode(SubSeq(b, 4, Len(b)))

\* Buffer.from(text, 'base64'), of a padded text
RECURSIVE Base64Decode(_)
Base64Decode(c) ==
  IF Len(c) < 4 THEN <<>>
  ELSE IF c[3] = Pad THEN <<c[1] * 4 + c[2] \div 16>>
  ELSE IF c[4] = Pad THEN
    <<c[1] * 4 + c[2] \div 16, (c[2] % 16) * 16 + c[3] \div 4>>
  ELSE <<c[1] * 4 + c[2] \div 16, (c[2] % 16) * 16 + c[3] \div 4,
         (c[3] % 4) * 64 + c[4]>>
       \o Base64Decode(SubSeq(c, 5, Len(c)))

\* s.split(sep): the pieces of s between the separators
RECURSIVE Split(_, _)
Split(s, sep) ==
  IF \A i \in 1..Len(s) : s[i] # sep THEN <<s>>
  ELSE LET k == CHOOSE i \in 1..Len(s) :
                  s[i] = sep /\ \A j \in 1..(i - 1) : s[j] # sep
       IN <<SubSeq(s, 1, k - 1)>> \o Split(SubSeq(s, k + 1, Len(s)), sep)

\* the value of a destructured element the array does not have
Undefined == <<-1>>

\* createMessageCursor(message): base64 of `${createdAt.getTime()}-${id}`
createMessageCursor(message) ==
  Base64Encode(ToDigits(message.createdAt) \o <<Dash>> \o message.id)

\* parseMessageCursor(cursor): const [timestamp, id] = decoded.split('-')
parseMessageCursor(cursor) ==
  LET decoded == Base64Decode(cursor)
      parts == Split(decoded, Dash)
  IN [timestamp |-> ParseInt(parts[1]),
      id |-> IF Len(parts) >= 2 THEN parts[2] ELSE Undefined]

(***************************************************************************)
(* Cursor round trip: the inputs are drawn, then the two functions applied *)
(***************************************************************************)
MaxTime == 12   \* createdAt, in epoch milliseconds, of the messages drawn

\* message ids in the shape of a UUID: hexadecimal groups joined by '-'
HexGroups == {<<97>>, <<98, 49>>, <<99, 100>>}
MessageIds == {g \o <<Dash>> \o h : g \in HexGroups, h \in HexGroups}

CursorInit ==
  /\ sessions = [s \in SessionIds |-> NoSession]
  /\ messages = <<>>
  /\ req = IdleReq
  /\ turn = 0
  /\ page = IdlePage
  /\ ctx = IdleCtx
  /\ study = IdleStudy
  /\ creating = IdleCreating
  /\ op = NoOp
  /\ \E t \in 0..MaxTime, i \in MessageIds :
       cur = [IdleCur EXCEPT !.phase = "message", !.createdAt = t, !.id = i]

CreateCursor ==
  /\ cur.phase = "message"
  /\ cur' = [cur EXCEPT !.phase = "cursor",
                        !.cursor = createMessageCursor([createdAt |-> cur.createdAt,
                                                        id |-> cur.id])]
  /\ UNCHANGED <<sessions, messages, req, turn, page, ctx, study, creating, op>>

ParseCursor ==
  /\ cur.phase = "cursor"
  /\ cur' = [cur EXCEPT !.phase = "parsed", !.parsed = parseMessageCursor(cur.cursor)]
  /\ UNCHANGED <<sessions, messages, req, turn, page, ctx, study, creating, op>>

CursorNext == CreateCursor \/ ParseCursor

SpecCursor == CursorInit /\ [][CursorNext]_vars

\* C8: parseMessageCursor(createMessageCursor({createdAt: t, id: i})) is the
\* pair (t, i), for every timestamp t and every UUID i.
C8_CursorRoundTrip ==
  cur.phase = "parsed" =>
    cur.parsed = [timestamp |-> cur.createdAt, id |-> cur.id]

(***************************************************************************)
(* getSession: the history of a session, page by page                      *)
(*                                                                         *)
(* The store is drawn: every message id is absent or a row of session 1    *)
(* with a createdAt and a role. A client reads the first page and follows  *)
(* nextCursor until it is null; nothing is written meanwhile.              *)
(***************************************************************************)
MaxLimit == 3   \* the limit query parameter of the client, 0..MaxLimit

PageTimes == {9, 10}
PageRoles == {"USER", "SYSTEM"}
PageIds == {<<97, Dash, 99>>, <<97, Dash, 100>>, <<98, Dash, 99>>}

\* lexicographic order of strings
RECURSIVE StrLess(_, _)
StrLess(a, b) ==
  IF b = <<>> THEN FALSE
  ELSE IF a = <<>> THEN TRUE
  ELSE IF a[1] # b[1] THEN a[1] < b[1]
  ELSE StrLess(Tail(a), Tail(b))

\* orderBy: [{createdAt}, {id}]
RowBefore(m, n) ==
  m.createdAt < n.createdAt \/ (m.createdAt = n.createdAt /\ StrLess(m.id, n.id))

RECURSIVE SortAsc(_)
SortAsc(S) ==
  IF S = {} THEN <<>>
  ELSE LET m == CHOOSE x \in S : \A y \in S \ {x} : RowBefore(x, y)
       IN <<m>> \o SortAsc(S \ {m})

Rows(msgs) == {msgs[i] : i \in 1..Len(msgs)}

\* messageWhere: the session's rows that are not SYSTEM, and with a cursor
\* those before (timestamp, id) of the cursor
MessageWhere(s, cursor) ==
  LET visible == {m \in Rows(messages) : m.sid = s /\ m.role # "SYSTEM"}
      cursorData == parseMessageCursor(cursor)
  IN IF cursor = <<>> THEN visible
     ELSE {m \in visible :
             \/ m.createdAt < cursorData.timestamp
             \/ m.createdAt = cursorData.timestamp /\ StrLess(m.id, cursorData.id)}

\* findMany(orderBy desc, take: limit), then messages.reverse()
PageOf(s, cursor, limit) ==
  LET asc == SortAsc(MessageWhere(s, cursor))
      n == Len(asc)
  IN IF n <= limit THEN asc ELSE SubSeq(asc, n - limit + 1, n)

HasMore_NonEmpty(n, limit) == n > 0

\* messages.length === parseInt(limit)
HasMore(n, limit) == n = limit

\* nextCursor of a page: of messages[0], when the page is full
NextCursorOf(msgs, limit) ==
  IF HasMore(Len(msgs), limit)
    THEN Base64Encode(ToDigits(msgs[1].createdAt) \o <<Dash>> \o msgs[1].id)
    ELSE <<>>

\* getSession as the owner: the page and its cursor; with limit 0 the full
\* empty page has no messages[0] and the handler throws
GetSession(p, s, cursor, limit) ==
  LET msgs == PageOf(s, cursor, limit) IN
  IF HasMore(Len(msgs), limit) /\ msgs = <<>>
    THEN [p EXCEPT !.phase = "error", !.limit = limit, !.fetches = @ + 1]
    ELSE LET nextCursor == NextCursorOf(msgs, limit) IN
         [p EXCEPT !.phase = IF nextCursor = <<>> THEN "done" ELSE "paging",
                   !.limit = limit, !.cursor = nextCursor, !.last = msgs,
                   !.out = msgs \o @, !.fetches = @ + 1]

PageInit ==
  /\ sessions = [s \in SessionIds |->
       [state |-> "live", userId |-> "u1", mode |-> "COUNCIL", title |-> "default",
        closed |-> FALSE, participants |-> <<"moises">>, updatedAt |-> 0]]
  /\ \E present \in SUBSET PageIds :
       \E at \in [present -> PageTimes], role \in [present -> PageRoles] :
         messages = SortAsc({[sid |-> 1, role |-> role[i], authorKey |-> "none",
                              turn |-> 0, id |-> i, createdAt |-> at[i]] :
                             i \in present})
  /\ req = IdleReq
  /\ turn = 0
  /\ page = IdlePage
  /\ cur = IdleCur
  /\ ctx = IdleCtx
  /\ study = IdleStudy
  /\ creating = IdleCreating
  /\ op = NoOp

FirstPage ==
  \E limit \in 0..MaxLimit :
    /\ page.phase = "idle"
    /\ page' = GetSession(page, 1, <<>>, limit)
    /\ UNCHANGED <<sessions, messages, req, turn, cur, ctx, study, creating, op>>

FollowCursor ==
  /\ page.phase = "paging"
  /\ page' = GetSession(page, 1, page.cursor, page.limit)
  /\ UNCHANGED <<sessions, messages, req, turn, cur, ctx, study, creating, op>>

PageNext == FirstPage \/ FollowCursor

SpecPage == PageInit /\ [][PageNext]_vars

\* a single fetch without pagination: every non-SYSTEM row, chronologically
Unpaginated(s) == SortAsc({m \in Rows(messages) : m.sid = s /\ m.role # "SYSTEM"})

\* C9: following nextCursor from the first page until it is null yields every
\* non-SYSTEM message of the session exactly once, in chronological order.
C9_PagingYieldsAll == page.phase = "done" => page.out = Unpaginated(1)

\* the oldest message of a page
Oldest(msgs) == CHOOSE m \in Rows(msgs) : \A n \in Rows(msgs) \ {m} : RowBefore(m, n)

\* C10: the page has a nextCursor iff it holds exactly limit messages, and
\* the cursor is the one of the oldest message of the page.
C10_NextCursorIffFullPage ==
  page.phase \in {"paging", "done"} =>
    /\ (page.cursor # <<>>) <=> (Len(page.last) = page.limit)
    /\ page.cursor # <<>> => page.cursor = createMessageCursor(Oldest(page.last))

C10_Witness ==
  /\ page.phase = "done" /\ page.fetches = 2
  /\ page.last # <<>> /\ Len(page.last) < page.limit

(***************************************************************************)
(* orchestrateChat: the message history of a turn                          *)
(*                                                                         *)
(* The store is drawn: session 1 with its first stored messages, created   *)
(* one per millisecond, a USER row and the rows of its turn alternating.   *)
(* orchestrateChat then loads the session with its messages.               *)
(***************************************************************************)
MaxStored == 22     \* Message rows of the session when the turn starts
MaxStart == 3       \* createdAt of the session's first message
HistoryTake == 20   \* take: 20

StoredRow(i, t0) ==
  [sid |-> 1, role |-> IF i % 2 = 1 THEN "USER" ELSE "CHARACTER",
   authorKey |-> IF i % 2 = 1 THEN "none" ELSE "moises", turn |-> 0,
   id |-> ToDigits(i), createdAt |-> t0 + i]

ContextInit ==
  /\ sessions = [s \in SessionIds |->
       [state |-> "live", userId |-> "u1", mode |-> "COUNCIL", title |-> "default",
        closed |-> FALSE, participants |-> <<"moises">>, updatedAt |-> 0]]
  /\ \E m \in 0..MaxStored, t0 \in 0..MaxStart :
       messages = [i \in 1..m |-> StoredRow(i, t0)]
  /\ req = IdleReq
  /\ turn = 0
  /\ page = IdlePage
  /\ cur = IdleCur
  /\ ctx = IdleCtx
  /\ study = IdleStudy
  /\ creating = IdleCreating
  /\ op = NoOp

\* the first n elements of a sequence
Take(seq, n) == IF Len(seq) <= n THEN seq ELSE SubSeq(seq, 1, n)

\* include: {messages: {orderBy: {createdAt: 'asc'}, take: 20}}
MessageHistory(s) ==
  Take(SortAsc({m \in Rows(messages) : m.sid = s}), HistoryTake)

LoadContext ==
  /\ ctx.phase = "idle"
  /\ ctx' = [phase |-> "loaded", history |-> MessageHistory(1)]
  /\ UNCHANGED <<sessions, messages, req, turn, page, cur, study, creating, op>>

\* the context is used for one prompt and dropped
DropContext ==
  /\ ctx.phase = "loaded"
  /\ ctx' = [ctx EXCEPT !.phase = "used"]
  /\ UNCHANGED <<sessions, messages, req, turn, page, cur, study, creating, op>>

ContextNext == LoadContext \/ DropContext

SpecContext == ContextInit /\ [][ContextNext]_vars

\* the n most recently created messages of a session, oldest first
MostRecent(s, n) ==
  LET asc == SortAsc({m \in Rows(messages) : m.sid = s})
  IN IF Len(asc) <= n THEN asc ELSE SubSeq(asc, Len(asc) - n + 1, Len(asc))

\* C18: the history orchestrateChat loads for a turn is the min(M, 20) most
\* recently created messages of the session, in ascending order of creation.
C18_ContextIsMostRecent ==
  ctx.phase # "idle" => ctx.history = MostRecent(1, HistoryTake)


(***************************************************************************)
(* startStudyParticipation: concurrent calls                               *)
(***************************************************************************)
\* EstudoTematico rows: one study exists, requests may name another id
Studies == {"e1"}
StudyIds == {"e1", "e0"}

StudyInit ==
  /\ sessions = [s \in SessionIds |-> NoSession]
  /\ messages = <<>>
  /\ req = IdleReq
  /\ turn = 0
  /\ page = IdlePage
  /\ cur = IdleCur
  /\ ctx = IdleCtx
  /\ study = IdleStudy
  /\ creating = IdleCreating
  /\ op = NoOp

\* prisma.participacaoEstudo.findUnique({where: {userId_estudoId: ...}})
FindParticipation(rows, u, e) ==
  \E i \in 1..Len(rows) : rows[i].userId = u /\ rows[i].estudoId = e

\* The compound unique key userId_estudoId the service looks rows up by: the
\* database refuses a second row of the same user and study (P2002).
UniqueViolation(rows, u, e) == FindParticipation(rows, u, e)

\* the controller's answer to what the service returned or threw
StudyStatus(error) ==
  IF error = "none" THEN 201
  ELSE IF error = "Study not found" THEN 404
  ELSE IF error = "User is already participating in this study" THEN 409
  ELSE errorHandler(PrismaErrorOf(error))

Thrown(call, error) ==
  [call EXCEPT !.pc = "done", !.error = error, !.status = StudyStatus(error)]

\* prisma.estudoTematico.findUnique
FindStudy(c) ==
  \E u \in Users, e \in StudyIds :
    /\ study.calls[c].pc = "idle"
    /\ study' = [study EXCEPT !.calls[c] =
         IF e \notin Studies
           THEN Thrown([@ EXCEPT !.userId = u, !.estudoId = e], "Study not found")
           ELSE [@ EXCEPT !.pc = "check", !.userId = u, !.estudoId = e]]
    /\ UNCHANGED <<sessions, messages, req, turn, page, cur, ctx, creating, op>>

CheckParticipation(c) ==
  LET call == study.calls[c] IN
    /\ call.pc = "check"
    /\ study' = [study EXCEPT !.calls[c] =
         IF FindParticipation(study.rows, call.userId, call.estudoId)
           THEN Thrown(@, "User is already participating in this study")
           ELSE [@ EXCEPT !.pc = "create"]]
    /\ UNCHANGED <<sessions, messages, req, turn, page, cur, ctx, creating, op>>

\* prisma.participacaoEstudo.create
CreateParticipation(c) ==
  LET call == study.calls[c] IN
    /\ call.pc = "create"
    /\ study' =
         IF UniqueViolation(study.rows, call.userId, call.estudoId)
           THEN [study EXCEPT !.calls[c] = Thrown(@, "P2002")]
           ELSE [study EXCEPT !.calls[c] = Thrown(@, "none"),
                              !.rows = Append(@, [userId |-> call.userId,
                                                  estudoId |-> call.estudoId])]
    /\ UNCHANGED <<sessions, messages, req, turn, page, cur, ctx, creating, op>>

StudyNext ==
  \E c \in StudyCalls :
    \/ FindStudy(c)
    \/ CheckParticipation(c)
    \/ CreateParticipation(c)

SpecStudy == StudyInit /\ [][StudyNext]_vars

\* the calls made for a user and a study, and those answered with a status
CallsFor(u, e) ==
  {c \in StudyCalls : study.calls[c].userId = u /\ study.calls[c].estudoId = e}
Answered(u, e, status) ==
  {c \in CallsFor(u, e) : study.calls[c].pc = "done" /\ study.calls[c].status = status}
RowsFor(u, e) ==
  {i \in 1..Len(study.rows) :
     study.rows[i].userId = u /\ study.rows[i].estudoId = e}

\* C23: however the calls for one user and one study interleave, there is at
\* most one participation row, at most one call is answered 201, and when all
\* of them have been answered exactly one got 201 and every other got 409.
C23_OneParticipation ==
  \A u \in Users, e \in Studies :
    /\ Cardinality(RowsFor(u, e)) <= 1
    /\ Cardinality(Answered(u, e, 201)) = Cardinality(RowsFor(u, e))
    /\ \A c \in CallsFor(u, e) :
         study.calls[c].pc = "done" => study.calls[c].status \in {201, 409}
    /\ (CallsFor(u, e) # {} /\ \A c \in CallsFor(u, e) : study.calls[c].pc = "done")
         => /\ Cardinality(Answered(u, e, 201)) = 1
            /\ Answered(u, e, 409) = CallsFor(u, e) \ Answered(u, e, 201)

\* two calls raced past the check: one created the row, the other was refused
\* by the database, and a third came later and was refused by the check
C23_Witness ==
  \E c, d, l \in StudyCalls :
    /\ study.calls[c].error = "none" /\ study.calls[c].status = 201
    /\ study.calls[d].error = "P2002" /\ study.calls[d].status = 409
    /\ study.calls[l].error = "User is already participating in this study"
    /\ study.calls[l].status = 409
    /\ {d, l} \subseteq CallsFor(study.calls[c].userId, study.calls[c].estudoId)


(***************************************************************************)
(* createSession: the concurrent participant inserts                       *)
(***************************************************************************)
\* The session a createSession request creates is known to no client until
\* the request is answered: other requests come after its inserts.
NewSession == 1

CreateInit ==
  /\ sessions = [s \in SessionIds |-> NoSession]
  /\ messages = <<>>
  /\ req = IdleReq
  /\ turn = 0
  /\ page = IdlePage
  /\ cur = IdleCur
  /\ ctx = IdleCtx
  /\ study = IdleStudy
  /\ creating = IdleCreating
  /\ op = NoOp

\* orderIndex: index, the place of the key in the request (0-based)
ParticipantOrderIndex_ByCompletion(index, rows) == Len(rows)

ParticipantOrderIndex(index, rows) == index - 1

\* participants: {orderBy: {orderIndex: 'asc'}}, as character keys
ReadParticipants(rows) ==
  [p \in 1..Len(rows) |->
     LET j == CHOOSE k \in 1..Len(rows) :
                Cardinality({l \in 1..Len(rows) :
                               rows[l].orderIndex < rows[k].orderIndex}) = p - 1
     IN rows[j].characterKey]

\* findMany of the keys, the ValidationError, prisma.chatSession.create, and
\* the participant creates all started by Promise.all
BeginCreate ==
  \E u \in Owners, mode \in Modes, keys \in KeyLists :
    /\ creating.phase = "idle"
    /\ IF FoundCharacters(keys) # Len(keys)
         THEN /\ creating' = [creating EXCEPT
                     !.phase = "rejected", !.keys = keys,
                     !.status = errorHandler(AppErrorOf("ValidationError"))]
              /\ UNCHANGED sessions
         ELSE /\ creating' = [creating EXCEPT
                     !.phase = "inserting", !.keys = keys,
                     !.pending = 1..Len(keys)]
              /\ sessions' = [sessions EXCEPT ![NewSession] =
                   [state |-> "live", userId |-> u, mode |-> mode,
                    title |-> "default", closed |-> FALSE, participants |-> <<>>,
                    updatedAt |-> 0]]
    /\ UNCHANGED <<messages, req, turn, page, cur, ctx, study, op>>

\* One prisma.chatParticipant.create completes, in any order. The first one
\* that fails rejects Promise.all and the request is answered by errorHandler;
\* the other inserts still complete.
InsertParticipant ==
  \E i \in creating.pending, ok \in BOOLEAN :
    /\ creating.phase = "inserting"
    /\ LET row == [characterKey |-> creating.keys[i],
                   orderIndex |-> ParticipantOrderIndex(i, creating.rows)]
           rows == IF ok THEN Append(creating.rows, row) ELSE creating.rows
       IN /\ creating' = [creating EXCEPT
                 !.pending = @ \ {i}, !.rows = rows,
                 !.status = IF ~ok /\ @ = 0
                              THEN errorHandler(PrismaErrorOf("other")) ELSE @]
          /\ sessions' = [sessions EXCEPT
                 ![NewSession].participants = ReadParticipants(rows)]
    /\ UNCHANGED <<messages, req, turn, page, cur, ctx, study, op>>

\* Promise.all resolved: sendSuccess(..., 201); or every insert has settled
\* after one was rejected
FinishCreate ==
  /\ creating.phase = "inserting"
  /\ creating.pending = {}
  /\ creating' = IF creating.status = 0
                   THEN [creating EXCEPT !.phase = "created", !.status = 201]
                   ELSE [creating EXCEPT !.phase = "failed"]
  /\ UNCHANGED <<sessions, messages, req, turn, page, cur, ctx, study, op>>

\* the client has the session id, from the 201 answer
Visible == creating.phase = "created"

CreateNext ==
  \/ BeginCreate
  \/ InsertParticipant
  \/ FinishCreate
  \/ \E s \in SessionIds, u \in Users, title \in Titles :
       Visible /\ renameSession(s, u, title)
  \/ \E s \in SessionIds, u \in Users : Visible /\ closeSession(s, u)
  \/ Visible /\ SendStart /\ Silent
  \/ Visible /\ Moderate /\ Silent
  \/ Visible /\ SaveUser /\ Silent
  \/ Visible /\ Orchestrate /\ Silent
  \/ Visible /\ Completion /\ Silent
  \/ Visible /\ PersistChar /\ Silent
  \/ Visible /\ PersistSummary /\ Silent
  \/ Visible /\ PersistSystem /\ Silent
  \/ Visible /\ Finish /\ Silent

SpecCreate == CreateInit /\ [][CreateNext]_vars

\* C28: once createSession has answered 201 for the keys k0..k(n-1), the
\* session has n participant rows with orderIndex 0..n-1, row i is the one of
\* ki whatever order the inserts completed in, and reading the participants
\* gives k0..k(n-1) after any later rename, close or sendMessage.
C28_ParticipantsInRequestOrder ==
  creating.phase = "created" =>
    LET n == Len(creating.keys) IN
    /\ Len(creating.rows) = n
    /\ {creating.rows[j].orderIndex : j \in 1..n} = 0..(n - 1)
    /\ \A j \in 1..n :
         creating.rows[j].characterKey = creating.keys[creating.rows[j].orderIndex + 1]
    /\ sessions[NewSession].participants = creating.keys

\* the second key's insert completed before the first one's, and a later
\* sendMessage turn on the session has written its rows
C28_Witness ==
  /\ creating.phase = "created"
  /\ Len(creating.rows) = 2 /\ creating.rows[1].orderIndex = 1
  /\ req.pc = "done" /\ req.outcome = "OK"
  /\ CountRole(req.rows, "CHARACTER") > 0

====
